---- MODULE Spec2Model ----
(***************************************************************************)
(* Session store (src/lib/storage.ts), chat message route                  *)
(* (src/app/api/chat/message/route.ts), AI client (src/lib/gemini.ts) and  *)
(* the admin session routes of the ai-therapist application.               *)
(*                                                                         *)
(* The route handlers run on a single-threaded event loop and the store    *)
(* uses only synchronous file-system calls, so the code between two        *)
(* `await`s of a handler is one atomic step.  A message request therefore  *)
(* has three steps: from entry to the pending generateTherapyResponse      *)
(* call, from its settlement to the pending evaluateMentalHealth call (or  *)
(* the response), and from that settlement to the response.                *)
(***************************************************************************)
EXTENDS Integers, Sequences, FiniteSets, TLC

\* ------------------------------------------------------------------ bounds
MaxTime == 1        \* the clock readings (Date.now(), in ms) are in 0..MaxTime
MaxReqs == 1        \* message requests of one run that get to their first await
MaxCreates == 1     \* createChatSession calls of one run
ScenarioReqs == 5   \* message requests of the one-after-another scenario
LateReqs == 4       \* message requests of the late-evaluation runs

Times == 0 .. MaxTime
Reqs == 1 .. MaxReqs

\* Outcomes of Math.random().toString(36).substring(2, 9)
RandomSuffixes == {"k3f", "x9q"}
\* A session id `session_${Date.now()}_${suffix}` is the pair <<ms, suffix>>
SessionIds == Times \X RandomSuffixes
\* The falsy sessionId of a request body (absent, null or "")
NoId == <<-1, "">>
\* A sessionId that createChatSession never returns
StrangerId == <<-2, "none">>
\* The message texts of request bodies; "" is the falsy one (absent or "")
MessageTexts == {"", "hi"}
\* The texts the provider returns to generateTherapyResponse
ReplyTexts == {"re"}

VARIABLES
    store,      \* data/sessions: session id -> what JSON.parse gives for its
                \* file (a session), or Corrupt when JSON.parse rejects it
    now,        \* the last reading of the clock (Date.now(), new Date())
    req,        \* the message requests that got to their first await:
                \* position and locals of each handler
    issued,     \* history: the ids returned by createChatSession so far
    created,    \* the number of createChatSession calls of the run
    deleted     \* history: the ids for which deleteSession returned true

vars == <<store, now, req, issued, created, deleted>>

\* ------------------------------------------------------------- primitives
None == <<>>
Some(x) == <<x>>

IsPrefix(s, t) == Len(s) <= Len(t) /\ SubSeq(t, 1, Len(s)) = s

\* storage.ts ChatMessage; `by` is history only: the request that appended it
ChatMessage(role, content, ts, r) ==
    [role |-> role, content |-> content, timestamp |-> ts, by |-> r]

\* storage.ts lines 95-100: the session object of createChatSession
NewSession(id, createdAt, updatedAt) ==
    [id |-> id, messages |-> <<>>, evaluation |-> None,
     createdAt |-> createdAt, updatedAt |-> updatedAt]

\* fs.existsSync(getSessionPath(id))
existsSync(st, id) == id \in DOMAIN st

\* The content of a file for which JSON.parse throws (storage.ts lines 137-141
\* and 232-236 are the handlers of that error)
Corrupt == [corrupt |-> TRUE]

\* Mutant of getChatSession: a session that is not stored reads as an empty one
getChatSessionOrEmpty(st, id) ==
    IF ~ existsSync(st, id) THEN Some(NewSession(id, 0, 0)) ELSE Some(st[id])

\* Mutant of getChatSession: a file that does not parse reads as an empty
\* session
getChatSessionRepairing(st, id) ==
    IF ~ existsSync(st, id) THEN None
    ELSE IF st[id] = Corrupt THEN Some(NewSession(id, 0, 0))
    ELSE Some(st[id])

\* storage.ts getChatSession: undefined (None) when the file does not exist,
\* and also when it exists and JSON.parse throws (the catch block)
getChatSession(st, id) ==
    IF ~ existsSync(st, id) THEN None
    ELSE IF st[id] = Corrupt THEN None
    ELSE Some(st[id])

\* The double that JSON.parse gives for a number literal beyond the range of
\* doubles, such as 1e400
Infinity == 1000000
\* JSON null, where a number was written
Null == -1000000

\* JSON.stringify(session, null, 2), as what JSON.parse gives for the text:
\* strings, finite numbers, arrays and objects come back as they were; a
\* number that is not finite is written as null.  Of the numbers a session
\* can hold, the wellnessScore of its evaluation is followed here.
JSONstringify(session) ==
    IF session.evaluation = None THEN session
    ELSE [session EXCEPT
            !.evaluation =
                Some([@[1] EXCEPT
                        !.wellnessScore = IF @ = Infinity THEN Null ELSE @])]

\* fs.writeFileSync(getSessionPath(id), JSON.stringify(session)): creates or
\* replaces the file of id
writeFileSync(st, id, session) ==
    [x \in DOMAIN st \cup {id} |->
        IF x = id THEN JSONstringify(session) ELSE st[x]]

\* Mutant of addMessage: a session that is not found is created with the
\* message
addMessageUpsert(st, sessionId, role, content, ts, r) ==
    LET session == getChatSession(st, sessionId)
        found == IF session = None THEN NewSession(sessionId, ts, ts)
                 ELSE session[1]
    IN  writeFileSync(st, sessionId,
            [found EXCEPT
                !.messages = Append(@, ChatMessage(role, content, ts, r)),
                !.updatedAt = ts])

\* storage.ts addMessage: the store after the call
addMessage(st, sessionId, role, content, ts, r) ==
    LET session == getChatSession(st, sessionId) IN
    IF session = None THEN st
    ELSE writeFileSync(st, sessionId,
             [session[1] EXCEPT
                 !.messages = Append(@, ChatMessage(role, content, ts, r)),
                 !.updatedAt = ts])

\* Mutant of updateEvaluation: for a session that is not found, a record
\* with the evaluation is written
updateEvaluationUpsert(st, sessionId, evaluation) ==
    LET session == getChatSession(st, sessionId)
        found == IF session = None
                 THEN NewSession(sessionId, evaluation.evaluatedAt,
                                 evaluation.evaluatedAt)
                 ELSE session[1]
    IN  writeFileSync(st, sessionId,
            [found EXCEPT !.evaluation = Some(evaluation)])

\* Mutant of updateEvaluation: updatedAt is set to the time of the evaluation
updateEvaluationTouching(st, sessionId, evaluation) ==
    LET session == getChatSession(st, sessionId) IN
    IF session = None THEN st
    ELSE writeFileSync(st, sessionId,
             [session[1] EXCEPT
                 !.evaluation = Some(evaluation),
                 !.updatedAt = evaluation.evaluatedAt])

\* Mutant of updateEvaluation: a session that has an evaluation keeps it
updateEvaluationKeepingFirst(st, sessionId, evaluation) ==
    LET session == getChatSession(st, sessionId) IN
    IF session = None THEN st
    ELSE writeFileSync(st, sessionId,
             [session[1] EXCEPT
                 !.evaluation = IF @ = None THEN Some(evaluation) ELSE @])

\* storage.ts updateEvaluation: the store after the call
updateEvaluation(st, sessionId, evaluation) ==
    LET session == getChatSession(st, sessionId) IN
    IF session = None THEN st
    ELSE writeFileSync(st, sessionId,
             [session[1] EXCEPT !.evaluation = Some(evaluation)])

\* storage.ts deleteSession: the store after the call and the returned flag
deleteSession(st, sessionId) ==
    IF existsSync(st, sessionId)
    THEN [store |-> [x \in DOMAIN st \ {sessionId} |-> st[x]], ret |-> TRUE]
    ELSE [store |-> st, ret |-> FALSE]

\* storage.ts getAllSessions: `files` is the listing fs.readdirSync returns;
\* the parsed sessions, sorted by updatedAt, most recent first.  Array.sort is
\* stable: sessions with equal updatedAt keep their listing order.
RECURSIVE InsertByUpdatedAt(_, _)
InsertByUpdatedAt(sorted, s) ==
    IF sorted = <<>> THEN <<s>>
    ELSE IF Head(sorted).updatedAt >= s.updatedAt
         THEN <<Head(sorted)>> \o InsertByUpdatedAt(Tail(sorted), s)
         ELSE <<s>> \o sorted

\* Mutant of SortByUpdatedAt: the sessions in the order of the listing
KeepListingOrder(sessions) == sessions

RECURSIVE SortByUpdatedAt(_)
SortByUpdatedAt(sessions) ==
    IF sessions = <<>> THEN <<>>
    ELSE InsertByUpdatedAt(
             SortByUpdatedAt(SubSeq(sessions, 1, Len(sessions) - 1)),
             sessions[Len(sessions)])

\* One JSON.parse that throws ends the loop in the catch block, which
\* returns []
getAllSessions(st, files) ==
    IF \E i \in 1 .. Len(files) : st[files[i]] = Corrupt THEN <<>>
    ELSE SortByUpdatedAt([i \in 1 .. Len(files) |-> st[files[i]]])

\* The listings fs.readdirSync can return: the stored files in any order
Listings(st) ==
    {f \in [1 .. Cardinality(DOMAIN st) -> DOMAIN st] :
        \A i, j \in DOMAIN f : i # j => f[i] # f[j]}

\* storage.ts createChatSession: the id is built from Date.now() and
\* Math.random(); createdAt and updatedAt are two later readings of the clock
createChatSession(st, id, createdAt, updatedAt) ==
    writeFileSync(st, id, NewSession(id, createdAt, updatedAt))

\* ---------------------------------------------------------------- AI client
\* What the provider does with one generateContent call
ReplyOutcomes ==
    {[kind |-> "error", text |-> ""]} \cup
    {[kind |-> "text", text |-> t] : t \in ReplyTexts}

\* The objects JSON.parse can return for the `{...}` part of a response text
EvaluationObjects ==
    {[wellnessScore |-> 72, riskLevel |-> "low"],
     [wellnessScore |-> 0, riskLevel |-> "severe"],
     [wellnessScore |-> Infinity, riskLevel |-> "low"]}

NoObject == [wellnessScore |-> -1, riskLevel |-> ""]

\* error: generateContent rejects; nomatch: the text has no `{...}` part;
\* badjson: it has one that JSON.parse rejects; json: it has one that parses
EvaluationOutcomes ==
    {[kind |-> k, object |-> NoObject] : k \in {"error", "nomatch", "badjson"}}
    \cup {[kind |-> "json", object |-> o] : o \in EvaluationObjects}

\* gemini.ts generateTherapyResponse: resolves with the text or rejects
generateTherapyResponse(outcome) ==
    IF outcome.kind = "text"
    THEN [ok |-> TRUE, value |-> outcome.text, error |-> ""]
    ELSE [ok |-> FALSE, value |-> "", error |-> "Failed to generate response"]

\* gemini.ts lines 201-214, the try block of evaluateMentalHealth: the
\* parsed object, or the error thrown inside the block
evaluateMentalHealthTry(outcome) ==
    IF outcome.kind = "json"
    THEN [ok |-> TRUE, value |-> outcome.object, error |-> ""]
    ELSE [ok |-> FALSE, value |-> NoObject,
          error |-> IF outcome.kind = "nomatch"
                    THEN "Invalid evaluation format"
                    ELSE IF outcome.kind = "badjson"
                    THEN "SyntaxError"
                    ELSE "fetch failed"]

\* gemini.ts evaluateMentalHealth: every failure inside the try block is
\* rethrown as the same Error('Failed to evaluate conversation')
evaluateMentalHealth(outcome) ==
    LET res == evaluateMentalHealthTry(outcome) IN
    IF res.ok THEN res
    ELSE [res EXCEPT !.error = "Failed to evaluate conversation"]

\* ------------------------------------------------- POST /api/chat/message
\* What request.json() yields: it throws (unparseable), or gives null, or an
\* object with the two fields (a falsy field is NoId or "")
Bodies ==
    {[kind |-> k, sessionId |-> NoId, message |-> ""] :
        k \in {"unparseable", "null"}}
    \cup {[kind |-> "object", sessionId |-> s, message |-> m] :
            s \in SessionIds \cup {NoId, StrangerId}, m \in MessageTexts}

\* A request body that has both fields and names session id
MessageFor(id) == [kind |-> "object", sessionId |-> id, message |-> "hi"]

ErrorBody(text) == <<"error", text>>
ResponseBody(text) == <<"response", text>>
NoBody == <<"", "">>

\* A handler that has not been entered
IdleReq ==
    [pc |-> "idle", sessionId |-> NoId, message |-> "", messages |-> <<>>,
     response |-> "", conversationText |-> <<>>, status |-> 0, body |-> NoBody]

\* return NextResponse.json(body, {status}): the handler and its locals end
Respond(status, body) ==
    [IdleReq EXCEPT !.pc = "done", !.status = status, !.body = body]

\* Mutant of MissingFields: only the sessionId is validated
MissingSessionId(b) == b.sessionId = NoId

\* route.ts line 44: !sessionId || !message
MissingFields(b) == b.sessionId = NoId \/ b.message = ""

\* route.ts lines 76-79: role and content of each message, no timestamp
History(messages) ==
    [i \in 1 .. Len(messages) |->
        [role |-> messages[i].role, content |-> messages[i].content]]

\* route.ts lines 95-97: one "User: ..." or "Therapist: ..." line per message
ConversationText(messages) ==
    [i \in 1 .. Len(messages) |->
        <<IF messages[i].role = "user" THEN "User" ELSE "Therapist",
          messages[i].content>>]

\* Mutant of ShouldEvaluate: the trigger without the `% 5 === 0` test
ShouldEvaluateFrom5(finalSession) ==
    /\ finalSession # None
    /\ Len(finalSession[1].messages) >= 5

\* Mutant of ShouldEvaluate: the trigger without its tests of the length
ShouldEvaluateAlways(finalSession) ==
    finalSession # None

\* route.ts line 93: the evaluation trigger, on the session read after the
\* assistant reply was appended
ShouldEvaluate(finalSession) ==
    /\ finalSession # None
    /\ Len(finalSession[1].messages) >= 5
    /\ Len(finalSession[1].messages) % 5 = 0

\* route.ts lines 103-106: the provider's object with evaluatedAt added;
\* `from` is history only: the conversation text the evaluation was asked for
Evaluation(object, ts, text) ==
    [wellnessScore |-> object.wellnessScore, riskLevel |-> object.riskLevel,
     evaluatedAt |-> ts, from |-> text]

\* Mutant of PostEntry: the history for the provider is taken from the
\* session read at line 53, before the user message is appended
PostEntryHistoryReadBefore(st, r, b, fsOk, ts) ==
    IF b.kind # "object"
    THEN [store |-> st,
          req |-> Respond(500, ErrorBody("Failed to process message"))]
    ELSE IF MissingFields(b)
    THEN [store |-> st,
          req |-> Respond(400, ErrorBody("Session ID and message are required"))]
    ELSE IF getChatSession(st, b.sessionId) = None
    THEN [store |-> st, req |-> Respond(404, ErrorBody("Session not found"))]
    ELSE IF ~ fsOk
    THEN [store |-> st,
          req |-> Respond(500, ErrorBody("Failed to process message"))]
    ELSE LET st1 == addMessage(st, b.sessionId, "user", b.message, ts, r)
             updatedSession == getChatSession(st1, b.sessionId)
         IN  IF updatedSession = None
             THEN [store |-> st1,
                   req |-> Respond(404, ErrorBody("Session not found"))]
             ELSE [store |-> st1,
                   req |-> [IdleReq EXCEPT
                              !.pc = "awaitReply",
                              !.sessionId = b.sessionId,
                              !.message = b.message,
                              !.messages =
                                  History(getChatSession(st, b.sessionId)[1]
                                              .messages)]]

\* route.ts lines 37-84 and 124-131: from entry to the pending
\* generateTherapyResponse call.  fsOk: writeFileSync does not throw.
PostEntry(st, r, b, fsOk, ts) ==
    IF b.kind # "object"
    THEN [store |-> st,
          req |-> Respond(500, ErrorBody("Failed to process message"))]
    ELSE IF MissingFields(b)
    THEN [store |-> st,
          req |-> Respond(400, ErrorBody("Session ID and message are required"))]
    ELSE IF getChatSession(st, b.sessionId) = None
    THEN [store |-> st, req |-> Respond(404, ErrorBody("Session not found"))]
    ELSE IF ~ fsOk
    THEN [store |-> st,
          req |-> Respond(500, ErrorBody("Failed to process message"))]
    ELSE LET st1 == addMessage(st, b.sessionId, "user", b.message, ts, r)
             updatedSession == getChatSession(st1, b.sessionId)
         IN  IF updatedSession = None
             THEN [store |-> st1,
                   req |-> Respond(404, ErrorBody("Session not found"))]
             ELSE [store |-> st1,
                   req |-> [IdleReq EXCEPT
                              !.pc = "awaitReply",
                              !.sessionId = b.sessionId,
                              !.message = b.message,
                              !.messages = History(updatedSession[1].messages)]]

\* Mutant of OnGeminiError: the error is swallowed and an empty reply returned
OnGeminiErrorSwallowed(st, q) ==
    [store |-> st, req |-> Respond(200, ResponseBody(""))]

\* route.ts lines 115-121: generateTherapyResponse (or a later call in the
\* inner try block) threw
OnGeminiError(st, q) ==
    [store |-> st,
     req |-> Respond(500, ErrorBody("Failed to generate response from AI"))]

\* route.ts lines 84-122: from the settlement of generateTherapyResponse to the
\* pending evaluateMentalHealth call or to the response
ReplySettled(st, q, r, outcome, fsOk, ts) ==
    LET res == generateTherapyResponse(outcome) IN
    IF ~ res.ok THEN OnGeminiError(st, q)
    ELSE IF getChatSession(st, q.sessionId) # None /\ ~ fsOk
    THEN OnGeminiError(st, q)
    ELSE LET st1 == addMessage(st, q.sessionId, "assistant", res.value, ts, r)
             finalSession == getChatSession(st1, q.sessionId)
         IN  IF ShouldEvaluate(finalSession)
             THEN [store |-> st1,
                   req |-> [q EXCEPT
                              !.pc = "awaitEval",
                              !.response = res.value,
                              !.conversationText =
                                  ConversationText(finalSession[1].messages)]]
             ELSE [store |-> st1,
                   req |-> Respond(200, ResponseBody(res.value))]

\* Mutant of OnEvaluationError: the error is logged and nothing is returned;
\* the request stays without a response
OnEvaluationErrorUnanswered(st, q) ==
    [store |-> st, req |-> [q EXCEPT !.pc = "unanswered"]]

\* Mutant of OnEvaluationError: the error reaches the outer catch block
OnEvaluationErrorRethrown(st, q) ==
    [store |-> st,
     req |-> Respond(500, ErrorBody("Failed to process message"))]

\* route.ts lines 107-110: evaluateMentalHealth or updateEvaluation threw; the
\* error is logged and the handler goes on to line 114
OnEvaluationError(st, q) ==
    [store |-> st, req |-> Respond(200, ResponseBody(q.response))]

\* Mutant of EvaluationSettled: the evaluation is written onto the session as
\* it was read at line 89, before the evaluateMentalHealth call, and not onto
\* the session that updateEvaluation loads
EvaluationSettledOnSessionReadBefore(st, q, outcome, fsOk, ts) ==
    LET res == evaluateMentalHealth(outcome)
        session == getChatSession(st, q.sessionId)
    IN  IF ~ res.ok THEN OnEvaluationError(st, q)
        ELSE IF session # None /\ ~ fsOk
        THEN OnEvaluationError(st, q)
        ELSE [store |->
                 IF session = None THEN st
                 ELSE writeFileSync(st, q.sessionId,
                          [session[1] EXCEPT
                              !.messages =
                                  SubSeq(@, 1, Len(q.conversationText)),
                              !.evaluation =
                                  Some(Evaluation(res.value, ts,
                                                  q.conversationText))]),
              req |-> Respond(200, ResponseBody(q.response))]

\* route.ts lines 101-114: from the settlement of evaluateMentalHealth to the
\* response
EvaluationSettled(st, q, outcome, fsOk, ts) ==
    LET res == evaluateMentalHealth(outcome) IN
    IF ~ res.ok THEN OnEvaluationError(st, q)
    ELSE IF getChatSession(st, q.sessionId) # None /\ ~ fsOk
    THEN OnEvaluationError(st, q)
    ELSE [store |-> updateEvaluation(st, q.sessionId,
                        Evaluation(res.value, ts, q.conversationText)),
          req |-> Respond(200, ResponseBody(q.response))]

\* ------------------------------------------------------------ admin routes
\* Mutant of AdminSessionDetail: a session that is not found is an error
AdminSessionDetailThrowing(st, id) ==
    LET session == getChatSession(st, id) IN
    IF session = None
    THEN [status |-> 500, error |-> "Failed to fetch session", session |-> None,
          store |-> st]
    ELSE [status |-> 200, error |-> "", session |-> session, store |-> st]

\* GET /api/admin/sessions/[id]: status, error text and session of the
\* response, and the store after the request
AdminSessionDetail(st, id) ==
    LET session == getChatSession(st, id) IN
    IF session = None
    THEN [status |-> 404, error |-> "Session not found", session |-> None,
          store |-> st]
    ELSE [status |-> 200, error |-> "", session |-> session, store |-> st]

\* DELETE /api/admin/sessions, the loop over getAllSessions(): the store after
\* it and the ids for which deleteSession returned true
RECURSIVE DeleteEach(_, _)
DeleteEach(st, sessions) ==
    IF sessions = <<>> THEN [store |-> st, removed |-> {}]
    ELSE LET d == deleteSession(st, Head(sessions).id)
             rest == DeleteEach(d.store, Tail(sessions))
         IN  [store |-> rest.store,
              removed |-> rest.removed \cup
                          (IF d.ret THEN {Head(sessions).id} ELSE {})]

\* DELETE /api/admin/sessions, the whole handler: nothing in its try block
\* throws here, so it answers 200 {message: 'All sessions cleared'}
AdminDeleteAll(st, files) ==
    [status |-> 200, message |-> "All sessions cleared",
     store |-> DeleteEach(st, getAllSessions(st, files)).store,
     removed |-> DeleteEach(st, getAllSessions(st, files)).removed]

\* ------------------------------------------------------------------ system
\* A run is followed from a point where data/sessions is empty, or holds what
\* one createChatSession call, a message request whose reply failed and a
\* message request that succeeded have left (by = 0: appended by one of these
\* earlier requests); the clock has not advanced since that create.
LeftId == <<0, "k3f">>
LeftSession ==
    [NewSession(LeftId, 0, 0) EXCEPT
        !.messages = <<ChatMessage("user", "hi", 0, 0),
                       ChatMessage("user", "hi", 0, 0),
                       ChatMessage("assistant", "re", 0, 0)>>]

InitialStores == {<<>>, writeFileSync(<<>>, LeftId, LeftSession)}

Init ==
    /\ store \in InitialStores
    /\ now = 0
    /\ req = [r \in Reqs |-> IdleReq]
    /\ issued = DOMAIN store
    /\ created = 0
    /\ deleted = {}

\* A reading of the clock: the last reading, or later by d.  A step of a
\* message request reads the clock once (d # 0 only in a step that reads it):
\* the two `new Date()` of one addMessage call are taken as one reading.
Clock(d) == now + d

\* POST /api/chat/create: createChatSession().  Date.now() of line 92 reads
\* Clock(d); the `new Date()` of line 98 reads it, or one millisecond later
\* (d1 = 1); the `new Date()` of line 99 reads that, or one later (d2 = 1).
Create(suffix, d, d1, d2) ==
    /\ created < MaxCreates
    /\ Clock(d) + d1 + d2 \in Times
    /\ store' = createChatSession(store, <<Clock(d), suffix>>,
                                  Clock(d) + d1, Clock(d) + d1 + d2)
    /\ issued' = issued \cup {<<Clock(d), suffix>>}
    /\ created' = created + 1
    /\ now' = Clock(d) + d1 + d2
    /\ UNCHANGED <<req, deleted>>

\* A message request arrives and runs to its first await, as the r-th request
\* that gets there, or to its response, which leaves no trace.  Its sessionId
\* is falsy, an id that createChatSession returned, or one it never returns.
\* fsOk = FALSE: the writeFileSync of this step throws (only a step that gets
\* to its write can see that).
Post(r, b, fsOk, d) ==
    /\ req[r].pc = "idle"
    /\ r > 1 => req[r - 1].pc # "idle"
    /\ b.sessionId \in issued \cup {NoId, StrangerId}
    /\ Clock(d) \in Times
    /\ PostEntry(store, r, b, fsOk, Clock(d)).req.pc = "awaitReply"
    /\ store' = PostEntry(store, r, b, fsOk, Clock(d)).store
    /\ req' = [req EXCEPT ![r] = PostEntry(store, r, b, fsOk, Clock(d)).req]
    /\ now' = Clock(d)
    /\ UNCHANGED <<issued, created, deleted>>

\* The generateTherapyResponse call of request r settles
ReplySettles(r, outcome, fsOk, d) ==
    /\ req[r].pc = "awaitReply"
    /\ ~ fsOk => outcome.kind = "text" /\ existsSync(store, req[r].sessionId)
    /\ d # 0 => outcome.kind = "text" /\ existsSync(store, req[r].sessionId)
    /\ Clock(d) \in Times
    /\ store' = ReplySettled(store, req[r], r, outcome, fsOk, Clock(d)).store
    /\ req' = [req EXCEPT
                 ![r] = ReplySettled(store, req[r], r, outcome, fsOk, Clock(d)).req]
    /\ now' = Clock(d)
    /\ UNCHANGED <<issued, created, deleted>>

\* The evaluateMentalHealth call of request r settles
EvaluationSettles(r, outcome, fsOk, d) ==
    /\ req[r].pc = "awaitEval"
    /\ ~ fsOk => outcome.kind = "json" /\ existsSync(store, req[r].sessionId)
    /\ d # 0 => outcome.kind = "json"
    /\ Clock(d) \in Times
    /\ store' = EvaluationSettled(store, req[r], outcome, fsOk, Clock(d)).store
    /\ req' = [req EXCEPT
                 ![r] = EvaluationSettled(store, req[r], outcome, fsOk, Clock(d)).req]
    /\ now' = Clock(d)
    /\ UNCHANGED <<issued, created, deleted>>

\* DELETE /api/admin/sessions
AdminDelete(files) ==
    /\ files \in Listings(store)
    /\ store' = AdminDeleteAll(store, files).store
    /\ deleted' = deleted \cup AdminDeleteAll(store, files).removed
    /\ UNCHANGED <<now, req, issued, created>>

Next ==
    \/ \E suffix \in RandomSuffixes, d \in {0, 1}, d1 \in {0, 1}, d2 \in {0, 1} :
           Create(suffix, d, d1, d2)
    \/ \E r \in Reqs, b \in Bodies, fsOk \in BOOLEAN, d \in {0, 1} :
           Post(r, b, fsOk, d)
    \/ \E r \in Reqs, outcome \in ReplyOutcomes, fsOk \in BOOLEAN, d \in {0, 1} :
           ReplySettles(r, outcome, fsOk, d)
    \/ \E r \in Reqs, outcome \in EvaluationOutcomes, fsOk \in BOOLEAN,
          d \in {0, 1} :
           EvaluationSettles(r, outcome, fsOk, d)
    \/ \E files \in Listings(store) : AdminDelete(files)

Spec == Init /\ [][Next]_vars

\* The runs in which every provider call returns or fails: a request that
\* waits for generateTherapyResponse or for evaluateMentalHealth does not wait
\* for ever
SpecLive ==
    /\ Spec
    /\ \A r \in Reqs :
          /\ WF_vars(\E outcome \in ReplyOutcomes, fsOk \in BOOLEAN,
                        d \in {0, 1} : ReplySettles(r, outcome, fsOk, d))
          /\ WF_vars(\E outcome \in EvaluationOutcomes, fsOk \in BOOLEAN,
                        d \in {0, 1} : EvaluationSettles(r, outcome, fsOk, d))

\* createChatSession when the id it draws is in use by no session, stored or
\* deleted: the call as its header comment describes it
CreateFresh(suffix, d, d1, d2) ==
    /\ <<Clock(d), suffix>> \notin issued \cup DOMAIN store
    /\ Create(suffix, d, d1, d2)

\* The runs in which every createChatSession call draws an id not in use
NextFresh ==
    \/ \E suffix \in RandomSuffixes, d \in {0, 1}, d1 \in {0, 1}, d2 \in {0, 1} :
           CreateFresh(suffix, d, d1, d2)
    \/ \E r \in Reqs, b \in Bodies, fsOk \in BOOLEAN, d \in {0, 1} :
           Post(r, b, fsOk, d)
    \/ \E r \in Reqs, outcome \in ReplyOutcomes, fsOk \in BOOLEAN, d \in {0, 1} :
           ReplySettles(r, outcome, fsOk, d)
    \/ \E r \in Reqs, outcome \in EvaluationOutcomes, fsOk \in BOOLEAN,
          d \in {0, 1} :
           EvaluationSettles(r, outcome, fsOk, d)
    \/ \E files \in Listings(store) : AdminDelete(files)

SpecFresh == Init /\ [][NextFresh]_vars

\* ------------------------------------------------------ unparseable files
\* The same system followed from a point where data/sessions may also hold a
\* file that JSON.parse rejects (a write that was cut short, a file edited by
\* hand): the case the catch blocks of getChatSession and getAllSessions are
\* written for.
CorruptId == <<0, "x9q">>

CorruptStores ==
    {[x \in DOMAIN st \cup {CorruptId} |->
         IF x = CorruptId THEN Corrupt ELSE st[x]] : st \in InitialStores}

InitCorrupt ==
    /\ store \in InitialStores \cup CorruptStores
    /\ now = 0
    /\ req = [r \in Reqs |-> IdleReq]
    /\ issued = DOMAIN store
    /\ created = 0
    /\ deleted = {}

SpecCorrupt == InitCorrupt /\ [][Next]_vars

\* ---------------------------------------------------------------- scenario
\* One client: createChatSession() has just returned, and the client sends
\* message requests for that session one after another, each after the
\* response to the one before; every provider call succeeds and no write
\* throws.
InitScenario ==
    /\ \E suffix \in RandomSuffixes, d1 \in {0, 1} :
           /\ store = createChatSession(<<>>, <<0, suffix>>, 0, d1)
           /\ now = d1
    /\ req = [r \in 1 .. ScenarioReqs |-> IdleReq]
    /\ issued = DOMAIN store
    /\ created = 1
    /\ deleted = {}

ScenarioSend(r, d) ==
    /\ r > 1 => req[r - 1].pc = "done"
    /\ \E id \in DOMAIN store :
           Post(r, [kind |-> "object", sessionId |-> id, message |-> "hi"],
                TRUE, d)

ScenarioReply(r, d) ==
    \E t \in ReplyTexts : ReplySettles(r, [kind |-> "text", text |-> t], TRUE, d)

ScenarioEvaluation(r, d) ==
    \E o \in EvaluationObjects :
        EvaluationSettles(r, [kind |-> "json", object |-> o], TRUE, d)

NextScenario ==
    \/ \E r \in 1 .. ScenarioReqs, d \in {0, 1} : ScenarioSend(r, d)
    \/ \E r \in 1 .. ScenarioReqs, d \in {0, 1} : ScenarioReply(r, d)
    \/ \E r \in 1 .. ScenarioReqs, d \in {0, 1} : ScenarioEvaluation(r, d)

SpecScenario == InitScenario /\ [][NextScenario]_vars

\* ---------------------------------------------------------- late evaluation
\* Message requests on one session while the evaluation asked for by an
\* earlier request is still pending.  The run is followed from the state that
\* these steps leave on the left session: request 1 is sent and its reply
\* arrives (5 messages: request 1 asks for an evaluation and waits); request 2
\* is sent and its reply fails (6 messages); request 3 is sent and answered (8
\* messages).  No session is created or deleted.
LateSteps ==
    LET text == [kind |-> "text", text |-> "re"]
        error == [kind |-> "error", text |-> ""]
        s0 == writeFileSync(<<>>, LeftId, LeftSession)
        p1 == PostEntry(s0, 1, MessageFor(LeftId), TRUE, 0)
        r1 == ReplySettled(p1.store, p1.req, 1, text, TRUE, 0)
        p2 == PostEntry(r1.store, 2, MessageFor(LeftId), TRUE, 0)
        r2 == ReplySettled(p2.store, p2.req, 2, error, TRUE, 0)
        p3 == PostEntry(r2.store, 3, MessageFor(LeftId), TRUE, 0)
        r3 == ReplySettled(p3.store, p3.req, 3, text, TRUE, 0)
    IN  [store |-> r3.store,
         req |-> [r \in 1 .. LateReqs |->
                    IF r = 1 THEN r1.req
                    ELSE IF r = 2 THEN r2.req
                    ELSE IF r = 3 THEN r3.req
                    ELSE IdleReq]]

InitLate ==
    /\ store = LateSteps.store
    /\ req = LateSteps.req
    /\ now = 0
    /\ issued = DOMAIN store
    /\ created = 0
    /\ deleted = {}

NextLate ==
    \/ \E r \in 1 .. LateReqs, d \in {0, 1} :
           Post(r, MessageFor(LeftId), TRUE, d)
    \/ \E r \in 1 .. LateReqs, outcome \in ReplyOutcomes, fsOk \in BOOLEAN,
          d \in {0, 1} :
           ReplySettles(r, outcome, fsOk, d)
    \/ \E r \in 1 .. LateReqs, outcome \in EvaluationOutcomes, fsOk \in BOOLEAN,
          d \in {0, 1} :
           EvaluationSettles(r, outcome, fsOk, d)

SpecLate == InitLate /\ [][NextLate]_vars

\* ------------------------------------------------------------------ claims
\* The indices of the messages that request r appended to a session
AppendedBy(session, r) ==
    {i \in DOMAIN session.messages : session.messages[i].by = r}

PositiveMultipleOf5(n) == n > 0 /\ n % 5 = 0

\* C1: whenever a message request returns the success response, its session
\* holds exactly two messages appended by that request: a "user" message with
\* the request text and, after it, an "assistant" message with the returned
\* reply.
C1_SuccessAppendsUserThenAssistant ==
    [][\A r \in Reqs :
        (req[r].pc # "done" /\ req'[r].pc = "done" /\ req'[r].status = 200) =>
            /\ existsSync(store', req[r].sessionId)
            /\ LET session == store'[req[r].sessionId]
                   mine == AppendedBy(session, r)
               IN  \E i, j \in mine :
                     /\ i < j
                     /\ mine = {i, j}
                     /\ session.messages[i].role = "user"
                     /\ session.messages[i].content = req[r].message
                     /\ session.messages[j].role = "assistant"
                     /\ req'[r].body = ResponseBody(session.messages[j].content)
      ]_vars

\* C2: when the generateTherapyResponse call of a request settles, the request
\* calls evaluateMentalHealth if and only if the reply was generated, the
\* assistant message was appended without error and the session read right
\* after it holds a positive multiple of 5 messages.
C2_EvaluateIffPositiveMultipleOf5 ==
    [][\A r \in Reqs, outcome \in ReplyOutcomes, fsOk \in BOOLEAN, d \in {0, 1} :
        ReplySettles(r, outcome, fsOk, d) =>
            ( req'[r].pc = "awaitEval"
              <=> /\ outcome.kind = "text"
                  /\ fsOk
                  /\ existsSync(store', req[r].sessionId)
                  /\ PositiveMultipleOf5(
                         Len(store'[req[r].sessionId].messages)) )
      ]_vars

\* C2 witness: a request is waiting for the evaluation it asked for when its
\* reply made the 5th message of its session
C2_Witness ==
    \E r \in Reqs :
        /\ req[r].pc = "awaitEval"
        /\ Len(req[r].conversationText) = 5
        /\ existsSync(store, req[r].sessionId)
        /\ Len(store[req[r].sessionId].messages) = 5

\* The evaluateMentalHealth call failed (the provider rejected, or its text
\* held no JSON object), or updateEvaluation threw
EvaluationFailed(outcome, fsOk) ==
    outcome.kind # "json" \/ ~ fsOk

\* C3: when evaluateMentalHealth or updateEvaluation fails in a message
\* request, the step that handles the failure leaves every session record as
\* it was (so the messages are those the request left when it appended the
\* assistant reply) and the request returns the success response with the
\* reply.
C3_EvaluationFailureKeepsMessagesAndSuccess ==
    [][\A r \in Reqs, outcome \in EvaluationOutcomes, fsOk \in BOOLEAN,
          d \in {0, 1} :
        (EvaluationSettles(r, outcome, fsOk, d)
            /\ EvaluationFailed(outcome, fsOk))
        =>  /\ store' = store
            /\ req'[r].pc = "done"
            /\ req'[r].status = 200
            /\ req'[r].body = ResponseBody(req[r].response)
      ]_vars

\* C3 witness: a request that asked for an evaluation at 5 messages has
\* returned 200, and its session has these 5 messages and no evaluation
C3_Witness ==
    \E r \in Reqs, id \in DOMAIN store :
        /\ req[r].pc = "done"
        /\ req[r].status = 200
        /\ Len(store[id].messages) = 5
        /\ store[id].messages[5].by = r
        /\ store[id].evaluation = None

\* C4: when generateTherapyResponse fails, the request responds 500 in that
\* step, calls no evaluation, and the step changes no session record: the user
\* message stays and no assistant message of the request is stored.
C4_ReplyFailureIs500AndAppendsNothing ==
    [][\A r \in Reqs, outcome \in ReplyOutcomes, fsOk \in BOOLEAN, d \in {0, 1} :
        (ReplySettles(r, outcome, fsOk, d) /\ outcome.kind = "error")
        =>  /\ req'[r].pc = "done"
            /\ req'[r].status = 500
            /\ store' = store
            /\ \A id \in DOMAIN store' : \A i \in AppendedBy(store'[id], r) :
                   store'[id].messages[i].role = "user"
      ]_vars

\* C4 witness: a request has returned the 500 of the reply failure and its
\* user message is the only message it left in the session
C4_Witness ==
    \E r \in Reqs, id \in DOMAIN store :
        /\ req[r].pc = "done"
        /\ req[r].status = 500
        /\ req[r].body = ErrorBody("Failed to generate response from AI")
        /\ Cardinality(AppendedBy(store[id], r)) = 1
        /\ \A i \in AppendedBy(store[id], r) :
               store[id].messages[i].role = "user"

C6_UnknownSessionIs404WithoutEffect ==
    \A r \in Reqs, b \in Bodies, fsOk \in BOOLEAN :
        (b.kind = "object" /\ b.sessionId # NoId /\ b.message # ""
            /\ b.sessionId \notin DOMAIN store)
        =>  LET out == PostEntry(store, r, b, fsOk, now) IN
            /\ out.req.pc = "done"
            /\ out.req.status = 404
            /\ out.store = store
            /\ b.sessionId \notin DOMAIN out.store

\* C6 witness: a session is stored, another id was deleted, and a request for
\* the deleted id is answered 404
C6_Witness ==
    /\ DOMAIN store # {}
    /\ \E id \in deleted \ DOMAIN store :
           PostEntry(store, MaxReqs,
                     [kind |-> "object", sessionId |-> id, message |-> "hi"],
                     TRUE, now).req.status = 404

\* C7: an id for which deleteSession returned true has no record from then
\* on: getChatSession and the admin detail route answer not-found; and
\* deleteSession on an id without a record returns false and changes nothing.
C7_DeletedStaysNotFound ==
    /\ \A id \in deleted :
           /\ getChatSession(store, id) = None
           /\ AdminSessionDetail(store, id).status = 404
    /\ \A id \in SessionIds \ DOMAIN store :
           deleteSession(store, id) = [store |-> store, ret |-> FALSE]

\* C8: createChatSession never returns an id it returned before, and never
\* writes over a stored session record.
C8_CreatedIdsDistinct ==
    [][\A suffix \in RandomSuffixes, d \in {0, 1}, d1 \in {0, 1}, d2 \in {0, 1} :
        Create(suffix, d, d1, d2) =>
            /\ <<Clock(d), suffix>> \notin issued
            /\ <<Clock(d), suffix>> \notin DOMAIN store
      ]_vars

\* C9: in every step, the messages of a session that is not deleted by the
\* step are a prefix of its messages after the step.
C9_MessagesOnlyGrow ==
    [][\A id \in DOMAIN store :
        id \in DOMAIN store' =>
            IsPrefix(store[id].messages, store'[id].messages)
      ]_vars

\* C10: a stored evaluation was asked for a conversation text of a positive
\* multiple of 5 messages that is a prefix of the session's messages.
C10_EvaluationOfPrefixOfLengthMultipleOf5 ==
    \A id \in DOMAIN store :
        store[id].evaluation # None =>
            LET text == store[id].evaluation[1].from IN
            /\ PositiveMultipleOf5(Len(text))
            /\ IsPrefix(text, ConversationText(store[id].messages))

\* The k-th request of the scenario has been answered and the next one has
\* not been sent
AfterRequest(k) ==
    /\ req[k].pc = "done"
    /\ k + 1 \in DOMAIN req => req[k + 1].pc = "idle"

\* C11: in the one-after-another scenario on a freshly created session, with
\* every provider call succeeding, the session holds exactly 8 messages and no
\* evaluation after the fourth request, and exactly 10 messages and an
\* evaluation after the fifth.
C11_FourRequestsNoEvaluationFiveRequestsOne ==
    \A id \in DOMAIN store :
        /\ AfterRequest(4) =>
               /\ Len(store[id].messages) = 8
               /\ store[id].evaluation = None
        /\ AfterRequest(5) =>
               /\ Len(store[id].messages) = 10
               /\ store[id].evaluation # None

\* C11 witness: the fifth request has been answered with 200 and the session
\* holds the 10 messages of the five requests and an evaluation of them
C11_Witness ==
    /\ AfterRequest(5)
    /\ req[5].status = 200
    /\ \E id \in DOMAIN store :
           /\ Len(store[id].messages) = 10
           /\ store[id].messages[10].by = 5
           /\ store[id].evaluation # None
           /\ Len(store[id].evaluation[1].from) = 10

\* C12: in every reachable state, every stored evaluation has a riskLevel that
\* is one of "low", "medium", "high" and an integer wellnessScore from 1 to
\* 100, whatever text the provider returned to the evaluate call.
C12_StoredEvaluationInRange ==
    \A id \in DOMAIN store :
        store[id].evaluation # None =>
            /\ store[id].evaluation[1].riskLevel \in {"low", "medium", "high"}
            /\ store[id].evaluation[1].wellnessScore \in 1 .. 100

\* C13: in every reachable state, the admin detail request for an id that
\* createChatSession never returned answers 404 with the error "Session not
\* found" (not 500), and leaves the store as it is, without a record for id.
C13_DetailOfNeverCreatedIs404 ==
    \A id \in (SessionIds \cup {StrangerId}) \ issued :
        LET out == AdminSessionDetail(store, id) IN
        /\ out.status = 404
        /\ out.error = "Session not found"
        /\ out.store = store
        /\ id \notin DOMAIN out.store

\* C13 witness: a session was created in the run and is found by the detail
\* route, and an id that was never created is answered 404
C13_Witness ==
    /\ created > 0
    /\ \E id \in DOMAIN store : AdminSessionDetail(store, id).status = 200
    /\ \E id \in SessionIds \ issued :
           AdminSessionDetail(store, id).status = 404

\* C14: in every reachable state, a record that exists but cannot be parsed is
\* told apart from an absent one: the detail route and the message route
\* answer 500 for the unparseable record and 404 only for the absent one.
C14_CorruptIs500AbsentIs404 ==
    \A id \in SessionIds, r \in Reqs :
        /\ (existsSync(store, id) /\ store[id] = Corrupt) =>
               /\ AdminSessionDetail(store, id).status = 500
               /\ PostEntry(store, r, MessageFor(id), TRUE, now).req.status = 500
        /\ ~ existsSync(store, id) =>
               /\ AdminSessionDetail(store, id).status = 404
               /\ PostEntry(store, r, MessageFor(id), TRUE, now).req.status = 404

\* C14 as amended: in every reachable state, getChatSession returns undefined
\* both for an id without a file and for an id whose file does not parse, and
\* the detail route and the message route answer 404 in both cases and leave
\* the store as it is.
C14_CorruptAndAbsentAreBothNotFound ==
    \A id \in SessionIds, r \in Reqs :
        (~ existsSync(store, id) \/ store[id] = Corrupt) =>
            /\ getChatSession(store, id) = None
            /\ AdminSessionDetail(store, id).status = 404
            /\ AdminSessionDetail(store, id).store = store
            /\ PostEntry(store, r, MessageFor(id), TRUE, now).req.status = 404
            /\ PostEntry(store, r, MessageFor(id), TRUE, now).store = store

\* C14 witness: a message request is waiting for its reply while the store
\* holds a file that does not parse, for which both routes answer 404
C14_Witness ==
    /\ \E r \in Reqs : req[r].pc = "awaitReply"
    /\ \E id \in DOMAIN store :
           /\ store[id] = Corrupt
           /\ AdminSessionDetail(store, id).status = 404
           /\ PostEntry(store, MaxReqs, MessageFor(id), TRUE, now).req.status
                  = 404

\* The stored sessions: what the files that parse hold
ParseableSessions(st) == {st[id] : id \in {x \in DOMAIN st : st[x] # Corrupt}}

\* The members of a sequence
Range(seq) == {seq[i] : i \in DOMAIN seq}

\* C15: in every reachable state where one stored record is unparseable,
\* getAllSessions returns every parseable session, for every listing order.
C15_ListingSkipsCorruptRecord ==
    Cardinality({id \in DOMAIN store : store[id] = Corrupt}) = 1 =>
        \A files \in Listings(store) :
            Range(getAllSessions(store, files)) = ParseableSessions(store)

\* C16: in every reachable state the admin bulk delete, when it answers 200,
\* leaves a store without session records for which getAllSessions returns
\* the empty sequence; and a store without records stays so in every step
\* that is not a createChatSession call.
C16_BulkDeleteEmptiesStore ==
    /\ [](\A files \in Listings(store) :
            LET out == AdminDeleteAll(store, files) IN
            out.status = 200 =>
                /\ DOMAIN out.store = {}
                /\ \A after \in Listings(out.store) :
                       getAllSessions(out.store, after) = <<>>)
    /\ [][(DOMAIN store = {} /\ created' = created) => DOMAIN store' = {}]_vars

\* C17: in every reachable state where every stored record is parseable,
\* getAllSessions returns, for every listing order, exactly the stored
\* sessions, each once, each with an updatedAt greater than or equal to that
\* of the session after it.
C17_ListingIsAllSessionsNewestFirst ==
    (\A id \in DOMAIN store : store[id] # Corrupt) =>
        \A files \in Listings(store) :
            LET sessions == getAllSessions(store, files) IN
            /\ Len(sessions) = Cardinality(DOMAIN store)
            /\ Range(sessions) = ParseableSessions(store)
            /\ \A i, j \in DOMAIN sessions :
                   i # j => sessions[i].id # sessions[j].id
            /\ \A i \in 1 .. Len(sessions) - 1 :
                   sessions[i].updatedAt >= sessions[i + 1].updatedAt

\* C17 witness: two parseable sessions are stored, and a listing that gives
\* the older one first is returned with the newer one first
C17_Witness ==
    /\ \A id \in DOMAIN store : store[id] # Corrupt
    /\ \E files \in Listings(store) :
           /\ Len(files) = 2
           /\ store[files[1]].updatedAt < store[files[2]].updatedAt
           /\ getAllSessions(store, files)[1] = store[files[2]]

\* C18: in every reachable state, addMessage and updateEvaluation on an id
\* without a stored record return with the store as it was: no record for the
\* id, every stored record unchanged.
C18_AppendAndSetOnAbsentIdAreNoOps ==
    \A id \in (SessionIds \cup {StrangerId}) \ DOMAIN store :
        /\ \A role \in {"user", "assistant"}, ts \in Times, r \in Reqs :
               /\ addMessage(store, id, role, "hi", ts, r) = store
               /\ id \notin DOMAIN addMessage(store, id, role, "hi", ts, r)
        /\ \A object \in EvaluationObjects, ts \in Times :
               LET evaluation == Evaluation(object, ts, <<>>) IN
               /\ updateEvaluation(store, id, evaluation) = store
               /\ id \notin DOMAIN updateEvaluation(store, id, evaluation)

\* C18 witness: a request is waiting for its reply, its session has been
\* deleted and another session is stored: the addMessage of the assistant
\* reply will find no record
C18_Witness ==
    /\ DOMAIN store # {}
    /\ \E r \in Reqs :
           /\ req[r].pc = "awaitReply"
           /\ req[r].sessionId \in deleted \ DOMAIN store
           /\ addMessage(store, req[r].sessionId, "assistant", "re", now, r)
                  = store

\* C19: right after createChatSession returns id, getChatSession(id) returns
\* a session with that id, no messages, no evaluation, and a createdAt equal
\* to its updatedAt.
C19_CreatedSessionIsEmptyWithEqualTimestamps ==
    [][\A suffix \in RandomSuffixes, d \in {0, 1}, d1 \in {0, 1}, d2 \in {0, 1} :
        Create(suffix, d, d1, d2) =>
            LET id == <<Clock(d), suffix>>
                session == getChatSession(store', id)
            IN  /\ session # None
                /\ session[1].id = id
                /\ session[1].messages = <<>>
                /\ session[1].evaluation = None
                /\ session[1].createdAt = session[1].updatedAt
      ]_vars

\* The calls of a sequence of addMessage and updateEvaluation calls
StoreCalls ==
    {[op |-> "addMessage", role |-> role, content |-> "hi", ts |-> ts,
      evaluation |-> None] : role \in {"user", "assistant"}, ts \in Times}
    \cup
    {[op |-> "updateEvaluation", role |-> "", content |-> "", ts |-> ts,
      evaluation |-> Some(Evaluation(object, ts, <<>>))] :
        object \in EvaluationObjects, ts \in Times}

\* The store after the calls of a sequence, made in order on session id
RECURSIVE ApplyCalls(_, _, _)
ApplyCalls(st, id, calls) ==
    IF calls = <<>> THEN st
    ELSE LET c == Head(calls) IN
         ApplyCalls(
             IF c.op = "addMessage"
             THEN addMessage(st, id, c.role, c.content, c.ts, 0)
             ELSE updateEvaluation(st, id, c.evaluation[1]),
             id, Tail(calls))

\* The calls of a sequence that are addMessage calls (updateEvaluation calls)
CallsOf(calls, op) == SelectSeq(calls, LAMBDA c : c.op = op)

\* What the calls of a sequence, made on a session, were asked to persist
LastPersisted(session, calls) ==
    LET appends == CallsOf(calls, "addMessage")
        sets == CallsOf(calls, "updateEvaluation")
    IN  [id |-> session.id,
         messages |->
             session.messages \o
             [i \in 1 .. Len(appends) |->
                 ChatMessage(appends[i].role, appends[i].content,
                             appends[i].ts, 0)],
         evaluation |->
             IF sets = <<>> THEN session.evaluation
             ELSE sets[Len(sets)].evaluation,
         createdAt |-> session.createdAt,
         updatedAt |->
             IF appends = <<>> THEN session.updatedAt
             ELSE appends[Len(appends)].ts]

\* C20: in every reachable state, for every stored session and every sequence
\* of at most two addMessage and updateEvaluation calls on it, getChatSession
\* then returns exactly what the calls were asked to persist: the messages
\* with the appended ones after them in call order, the evaluation last set,
\* the timestamps last written.
C20_GetReturnsWhatWasPersisted ==
    \A id \in DOMAIN store :
        \A calls \in {<<>>} \cup {<<c>> : c \in StoreCalls}
                     \cup {<<c1, c2>> : c1 \in StoreCalls, c2 \in StoreCalls} :
            getChatSession(ApplyCalls(store, id, calls), id)
                = Some(LastPersisted(store[id], calls))

\* The evaluations a request on session can ask updateEvaluation to store
EvaluationsFor(session) ==
    {Evaluation(object, ts, ConversationText(session.messages)) :
        object \in EvaluationObjects, ts \in Times}

\* C21: a session holds at most one evaluation, and updateEvaluation on a
\* session that is found stores the new evaluation in place of the previous
\* one: riskLevel, evaluatedAt and the transcript are those of the new
\* evaluation, the wellnessScore is the new one as JSON writes it, and the
\* stored evaluation is the same whatever evaluation the session held before.
C21_SetEvaluationReplacesWholeEvaluation ==
    \A id \in DOMAIN store :
        LET session == getChatSession(store, id) IN
        session # None =>
            /\ Len(session[1].evaluation) <= 1
            /\ \A e \in EvaluationsFor(session[1]) :
                   LET after == updateEvaluation(store, id, e)[id].evaluation IN
                   /\ Len(after) = 1
                   /\ after[1].riskLevel = e.riskLevel
                   /\ after[1].evaluatedAt = e.evaluatedAt
                   /\ after[1].from = e.from
                   /\ after[1].wellnessScore \in {e.wellnessScore, Null}
                   /\ \A e0 \in EvaluationsFor(session[1]) :
                          updateEvaluation(updateEvaluation(store, id, e0),
                                           id, e)[id].evaluation = after

\* C21 witness: a session holds an evaluation while a request that asked for
\* an evaluation of another transcript of it is still waiting to store its own
C21_Witness ==
    \E id \in DOMAIN store, r \in DOMAIN req :
        /\ store[id] # Corrupt
        /\ store[id].evaluation # None
        /\ req[r].pc = "awaitEval"
        /\ req[r].sessionId = id
        /\ req[r].conversationText # store[id].evaluation[1].from

\* The storage call that request r makes when its pending provider call
\* returns a value at time ts, as a change of the store: the append of the
\* assistant message, or the set of the evaluation
PendingCall(r, st, ts) ==
    IF req[r].pc = "awaitReply"
    THEN addMessage(st, req[r].sessionId, "assistant", "re", ts, r)
    ELSE updateEvaluation(st, req[r].sessionId,
             Evaluation([wellnessScore |-> 72, riskLevel |-> "low"], ts,
                        req[r].conversationText))

\* The change of request r's pending storage call is in the record of id
ChangeOf(r, session) ==
    IF req[r].pc = "awaitReply"
    THEN \E i \in 1 .. Len(session.messages) :
            session.messages[i] = ChatMessage("assistant", "re", now, r)
    ELSE /\ session.evaluation # None
         /\ session.evaluation[1].from = req[r].conversationText

\* Two requests wait to write to the same stored session, and at least one of
\* the two writes is an append
ConcurrentWriters(r1, r2) ==
    /\ r1 # r2
    /\ req[r1].pc \in {"awaitReply", "awaitEval"}
    /\ req[r2].pc \in {"awaitReply", "awaitEval"}
    /\ "awaitReply" \in {req[r1].pc, req[r2].pc}
    /\ req[r1].sessionId = req[r2].sessionId
    /\ getChatSession(store, req[r1].sessionId) # None

C23_EvaluateReportsTwoErrorKinds ==
    \A r \in DOMAIN req :
        req[r].pc = "awaitEval" =>
            \A o1, o2 \in EvaluationOutcomes :
                (o1.kind = "nomatch" /\ o2.kind \in {"error", "badjson"}) =>
                    /\ ~ evaluateMentalHealth(o1).ok
                    /\ ~ evaluateMentalHealth(o2).ok
                    /\ evaluateMentalHealth(o1).error
                           = "Invalid evaluation format"
                    /\ evaluateMentalHealth(o2).error
                           # evaluateMentalHealth(o1).error

\* The responses of the message route: 400, 404 and 500 with an error text,
\* 200 with the reply
TerminalOutcome(q) ==
    /\ q.pc = "done"
    /\ \/ q.status \in {400, 404, 500} /\ q.body[1] = "error"
       \/ q.status = 200 /\ q.body[1] = "response"

\* C24: when every provider call returns or fails, every message request
\* ends with one response.  A request is answered at entry with 400, 404 or
\* 500 or goes on to the provider; a request that waits for a provider call
\* is answered in the end, with 200 and the reply or with 500; and a request
\* that has been answered is not answered again.
C24_EveryRequestGetsOneResponse ==
    /\ [](\A r \in Reqs, b \in Bodies, fsOk \in BOOLEAN :
             LET q == PostEntry(store, r, b, fsOk, now).req IN
             TerminalOutcome(q) \/ q.pc = "awaitReply")
    /\ \A r \in Reqs :
          (req[r].pc \in {"awaitReply", "awaitEval"})
              ~> (TerminalOutcome(req[r]) /\ req[r].status \in {200, 500})
    /\ [][\A r \in Reqs :
             req[r].pc \notin {"idle", "awaitReply", "awaitEval"}
                 => req'[r] = req[r]]_vars

\* C24 witness: a request that waited for its reply and then for its
\* evaluation, which failed, has been answered with the reply
C24_Witness ==
    \E r \in Reqs, id \in DOMAIN store :
        /\ TerminalOutcome(req[r])
        /\ req[r].status = 200
        /\ store[id] # Corrupt
        /\ Len(store[id].messages) = 5
        /\ store[id].messages[5].by = r
        /\ store[id].evaluation = None

\* C25: a stored session that has an evaluation has at least 5 messages.
C25_EvaluatedSessionHasFiveMessages ==
    \A id \in DOMAIN store :
        (store[id] # Corrupt /\ store[id].evaluation # None)
            => Len(store[id].messages) >= 5

\* C26: the history that a request hands to generateTherapyResponse is the
\* whole stored message sequence of its session, role and content of each
\* message, as it is right after the request's own user message was
\* appended; its last element is that user message.  Other requests on the
\* same session may be waiting for the provider at that moment.
C26_HistoryIsStoredSequenceAfterOwnAppend ==
    [][\A r \in DOMAIN req :
          (req[r].pc = "idle" /\ req'[r].pc = "awaitReply") =>
              LET id == req'[r].sessionId IN
              /\ id \in DOMAIN store /\ id \in DOMAIN store'
              /\ store'[id].messages
                     = Append(store[id].messages,
                              ChatMessage("user", req'[r].message, now', r))
              /\ req'[r].messages = History(store'[id].messages)
              /\ req'[r].messages[Len(req'[r].messages)]
                     = [role |-> "user", content |-> req'[r].message]]_vars

\* C26 witness: a request has appended the ninth message and waits for its
\* reply with a history of nine, while the first request still waits for its
\* evaluation of the same session
C26_Witness ==
    \E r, r1 \in DOMAIN req :
        /\ req[r].pc = "awaitReply"
        /\ Len(req[r].messages) = 9
        /\ req[r1].pc = "awaitEval"
        /\ req[r1].sessionId = req[r].sessionId

\* C27: no step replaces a session's stored evaluation by one that was
\* computed from a shorter transcript of the session.
C27_EvaluationNeverReplacedByOlderTranscript ==
    [][\A id \in DOMAIN store :
          (/\ id \in DOMAIN store'
           /\ store[id].evaluation # None
           /\ store'[id].evaluation # None)
              => Len(store'[id].evaluation[1].from)
                     >= Len(store[id].evaluation[1].from)]_vars

\* C28: the id of a deleted session is not brought back into the store by a
\* step of a message request: neither the append of the assistant reply nor
\* the set of the evaluation of a request that was waiting when the session
\* was deleted writes a record for it.  A step after which a deleted id is in
\* the store again is a createChatSession, and no request has moved in it.
C28_RequestStepsDoNotRecreateDeleted ==
    [][\A id \in deleted :
          (id \notin DOMAIN store /\ id \in DOMAIN store')
              => (req' = req /\ created' = created + 1)]_vars

\* C28 witness: a request waits for its evaluation, its session has been
\* deleted, and the step in which the evaluation arrives leaves the store
\* without a record for the id
C28_Witness ==
    \E r \in Reqs :
        /\ req[r].pc = "awaitEval"
        /\ req[r].sessionId \in deleted \ DOMAIN store
        /\ \A o \in EvaluationObjects :
               req[r].sessionId \notin
                   DOMAIN EvaluationSettled(store, req[r],
                              [kind |-> "json", object |-> o], TRUE, now).store

\* The number of messages with the role among the first n of messages
CountRole(messages, role, n) ==
    Cardinality({i \in 1 .. n : messages[i].role = role})

\* C29: in every prefix of every stored session's message sequence there are
\* at most as many "assistant" messages as "user" messages; a sequence that
\* is not empty starts with a "user" message.
C29_AssistantsNeverOutnumberUsers ==
    \A id \in DOMAIN store :
        store[id] # Corrupt =>
            LET messages == store[id].messages IN
            /\ \A n \in 0 .. Len(messages) :
                   CountRole(messages, "assistant", n)
                       <= CountRole(messages, "user", n)
            /\ messages # <<>> => messages[1].role = "user"

\* The ids of a sequence of sessions, in its order
IdsOf(sessions) == [i \in 1 .. Len(sessions) |-> sessions[i].id]

\* C30: updateEvaluation on a stored session changes the evaluation field of
\* that session and nothing else: id, messages, createdAt and updatedAt of
\* the session, the set of stored files and every other record are as before,
\* and getAllSessions lists the sessions in the same order as before (the
\* order is computed for one provider object at each time of evaluation).
C30_SetEvaluationChangesOnlyEvaluation ==
    /\ \A id \in DOMAIN store :
           LET session == getChatSession(store, id) IN
           session # None =>
               \A e \in EvaluationsFor(session[1]) :
                   LET after == updateEvaluation(store, id, e) IN
                   /\ DOMAIN after = DOMAIN store
                   /\ \A x \in DOMAIN store \ {id} : after[x] = store[x]
                   /\ after[id].id = session[1].id
                   /\ after[id].messages = session[1].messages
                   /\ after[id].createdAt = session[1].createdAt
                   /\ after[id].updatedAt = session[1].updatedAt
    /\ \A files \in Listings(store) :
           LET before == IdsOf(getAllSessions(store, files)) IN
           \A id \in DOMAIN store, ts \in Times :
               IdsOf(getAllSessions(
                         updateEvaluation(store, id,
                             Evaluation([wellnessScore |-> 72,
                                         riskLevel |-> "low"], ts, <<>>)),
                         files)) = before

\* C30 witness: two sessions are stored, and one of them holds an evaluation
\* that was stored after the session's last message: its updatedAt is still
\* the time of that message
C30_Witness ==
    \E id, other \in DOMAIN store :
        /\ id # other
        /\ store[id].evaluation # None
        /\ store[id].evaluation[1].evaluatedAt > store[id].updatedAt
        /\ store[id].updatedAt
               = store[id].messages[Len(store[id].messages)].timestamp

====
